---- MODULE Spec2Model ----
(***************************************************************************)
(* Model of app.py: the letter-to-audio resolver (get_audio_filename), the *)
(* recognition request adapter (identify_arabic_letter_from_bytes) and the *)
(* module-level presentation flow that Streamlit re-runs on every          *)
(* interaction.                                                            *)
(*                                                                         *)
(* Text is a sequence of characters; a character is written as its code    *)
(* point, "U0628" for ARABIC LETTER BEH.  File paths and base names are    *)
(* plain ASCII strings, built with \o as the code builds them with +.      *)
(***************************************************************************)
EXTENDS Integers, Sequences, FiniteSets, TLC

VARIABLES
    API_KEY,            \* app.py:14, read once at import
    files,              \* paths that exist on disk (os.path.exists)
    letter,             \* argument of a direct get_audio_filename call
    resolver,           \* locals of the last get_audio_filename call
    pc,                 \* position of the script run
    renders,            \* script runs so far in this session
    camera_image,       \* app.py:157
    uploaded_file,      \* app.py:151
    source_image,       \* app.py:160
    events,             \* what this run has rendered and issued, in order
    calls,              \* generate_content calls issued by this run
    total_calls,        \* generate_content calls issued by the session
    in_flight,          \* generate_content calls issued and not yet back
    response_text,      \* response.text of the call, as the service sent it
    e,                  \* the exception caught at app.py:111
    identified_letter,  \* app.py:182
    audio_file_path     \* app.py:197

vars == <<API_KEY, files, letter, resolver, pc, renders, camera_image,
          uploaded_file, source_image, events, calls, total_calls, in_flight,
          response_text, e, identified_letter, audio_file_path>>

----------------------------------------------------------------------------
(* Bounds of the model. *)

\* Script runs per session; the first run of a session has no image yet.
MaxRenders == 3

\* Longest run of whitespace put on either side of an input text.
MaxPad == 1

----------------------------------------------------------------------------
(* Values. *)

\* Python's None where the code holds a str that the model writes as a
\* string: the credential, a base name, a path.
None == "None"

\* Python's None where the code holds a str that the model writes as a
\* sequence of characters.  "None" is no character, so no text equals it.
NoneText == <<"None">>

SPACE == "U0020"
NEWLINE == "U000A"
BEH == "U0628"
AIN == "U0639"
HEH == "U0647"
TATWEEL == "U0640"
CROSS == "U274C"
LATIN_A == "U0041"

\* The characters of the model for which str.isspace() is true.  TATWEEL and
\* the other characters are not whitespace.
Whitespace == {SPACE, NEWLINE}

AUDIO_FOLDER == "sounds"

----------------------------------------------------------------------------
(* get_audio_filename, app.py:23-58. *)

\* The entries of the dict display at app.py:34-42, as written, in order.
main_entries ==
  <<
    \* line 34
    <<"U0639", "ain">>,              \* AIN
    <<"U0627", "alif">>,             \* ALEF
    <<"U0623", "alif_hamza_foq">>,   \* ALEF WITH HAMZA ABOVE
    <<"U0625", "alif_hamza_taht">>,  \* ALEF WITH HAMZA BELOW
    \* line 35
    <<"U0622", "alif_madda">>,       \* ALEF WITH MADDA ABOVE
    <<"U0649", "alif_maqsura">>,     \* ALEF MAKSURA
    <<"U0628", "baa">>,              \* BEH
    <<"U0636", "daad">>,             \* DAD
    \* line 36
    <<"U062F", "daal">>,             \* DAL
    <<"U0630", "dhaal">>,            \* THAL
    <<"U0641", "faa">>,              \* FEH
    <<"U063A", "ghain">>,            \* GHAIN
    \* line 37
    <<"U062D", "haa">>,              \* HAH
    <<"U0647", "hah">>,              \* HEH
    <<"U0621", "hamza">>,            \* HAMZA
    <<"U062C", "jeem">>,             \* JEEM
    \* line 38
    <<"U0643", "kaaf">>,             \* KAF
    <<"U062E", "khaa">>,             \* KHAH
    <<"U0644", "laam">>,             \* LAM
    <<"U0645", "meem">>,             \* MEEM
    \* line 39
    <<"U0646", "noon">>,             \* NOON
    <<"U0642", "qaaf">>,             \* QAF
    <<"U0631", "raa">>,              \* REH
    <<"U0635", "saad">>,             \* SAD
    \* line 40
    <<"U0633", "seen">>,             \* SEEN
    <<"U0634", "sheen">>,            \* SHEEN
    <<"U0637", "taat">>,             \* TAH
    <<"U0629", "taa_marbuta">>,      \* TEH MARBUTA
    \* line 41
    <<"U062A", "taa">>,              \* TEH
    <<"U062B", "thaa">>,             \* THEH
    <<"U0648", "waw">>,              \* WAW
    <<"U0624", "waw_hamza">>,        \* WAW WITH HAMZA ABOVE
    \* line 42
    <<"U064A", "yaa">>,              \* YEH
    <<"U0626", "yaa_hamza">>,        \* YEH WITH HAMZA ABOVE
    <<"U0638", "zaat">>,             \* ZAH
    <<"U0632", "zay">>               \* ZAIN
  >>

\* The same four entries under two other code points for the hamza and yaa
\* forms: ALEF WASLA, FARSI YEH.
robust_entries_other_forms ==
  <<
    <<"U0671", "alif_hamza_foq">>,
    <<"U0625", "alif_hamza_taht">>,
    <<"U06CC", "yaa">>,
    <<"U0626", "yaa_hamza">>
  >>

\* The entries under "Robust matching for common hamza/yaa forms",
\* app.py:44-45.
robust_entries ==
  <<
    <<"U0623", "alif_hamza_foq">>,   \* ALEF WITH HAMZA ABOVE
    <<"U0625", "alif_hamza_taht">>,  \* ALEF WITH HAMZA BELOW
    <<"U064A", "yaa">>,              \* YEH
    <<"U0626", "yaa_hamza">>         \* YEH WITH HAMZA ABOVE
  >>

\* The dict display of app.py:33-46, entry by entry.
mapping_entries == main_entries \o robust_entries

\* A dict display evaluates its entries left to right; a repeated key keeps
\* the value of its last entry.
DictOf(entries) ==
  LET keys == {entries[i][1] : i \in DOMAIN entries}
      last(k) == CHOOSE i \in DOMAIN entries :
                    /\ entries[i][1] = k
                    /\ \A j \in DOMAIN entries : entries[j][1] = k => j <= i
  IN  [k \in keys |-> entries[last(k)][2]]

\* dict.get(key): the value, or None when the key is absent.  A key of
\* mapping_base is one character, so a text is a key only if it is exactly
\* that one character.
DictGet(d, text) ==
  IF Len(text) = 1 /\ text[1] \in DOMAIN d THEN d[text[1]] ELSE None

RECURSIVE lstrip(_)
lstrip(s) ==
  IF s # <<>> /\ Head(s) \in Whitespace THEN lstrip(Tail(s)) ELSE s

RECURSIVE rstrip(_)
rstrip(s) ==
  IF s # <<>> /\ s[Len(s)] \in Whitespace
  THEN rstrip(SubSeq(s, 1, Len(s) - 1))
  ELSE s

\* str.lstrip() in the place of str.strip().
strip_left_only(s) == lstrip(s)

\* str.strip() with no argument: whitespace off both ends.
strip(s) == rstrip(lstrip(s))

\* os.path.join(AUDIO_FOLDER, filename)
path_join(folder, filename) == folder \o "/" \o filename

\* No existence check.
path_exists_unchecked(fs, path) == TRUE

\* os.path.exists(path)
path_exists(fs, path) == path \in fs

\* The locals of get_audio_filename(l) when it returns, and what it returns.
get_audio_filename_locals(l, fs) ==
  LET normalized_letter == strip(l)
      mapping_base == DictOf(mapping_entries)
      base_name == DictGet(mapping_base, normalized_letter)
      filename == base_name \o ".mp4"
      full_path == path_join(AUDIO_FOLDER, filename)
  IN  [ letter |-> l,
        normalized_letter |-> normalized_letter,
        mapping_base |-> mapping_base,
        base_name |-> base_name,
        result |-> IF base_name # None /\ base_name # ""
                      /\ path_exists(fs, full_path)
                   THEN full_path
                   ELSE None ]

get_audio_filename(l, fs) == get_audio_filename_locals(l, fs).result

----------------------------------------------------------------------------
(* identify_arabic_letter_from_bytes, app.py:63-113. *)

\* The list of permitted answers in the prompt, app.py:94, entry by entry as
\* written there.  The thirtieth entry is HEH followed by TATWEEL.
allowed_letters ==
  << <<"U0627">>, <<"U0623">>, <<"U0625">>, <<"U0622">>, <<"U0649">>,
     <<"U0628">>, <<"U062A">>, <<"U062B">>, <<"U062C">>, <<"U062D">>,
     <<"U062E">>, <<"U062F">>, <<"U0630">>, <<"U0631">>, <<"U0632">>,
     <<"U0633">>, <<"U0634">>, <<"U0635">>, <<"U0636">>, <<"U0637">>,
     <<"U0638">>, <<"U0639">>, <<"U063A">>, <<"U0641">>, <<"U0642">>,
     <<"U0643">>, <<"U0644">>, <<"U0645">>, <<"U0646">>,
     <<"U0647", "U0640">>,
     <<"U0648">>, <<"U0624">>, <<"U064A">>, <<"U0626">>, <<"U0629">>,
     <<"U0621">> >>

\* The string returned at app.py:69: CROSS, a space and two Arabic words.
MSG_NO_KEY ==
  <<"U274C", "U0020", "U0641", "U0634", "U0644", "U0020", "U0627", "U0644",
    "U0627", "U062A", "U0635", "U0627", "U0644">>

\* The string returned at app.py:113: CROSS, a space and two Arabic words.
MSG_PROCESSING_FAILED ==
  <<"U274C", "U0020", "U0641", "U0634", "U0644", "U0020", "U0627", "U0644",
    "U0645", "U0639", "U0627", "U0644", "U062C", "U0629">>

\* The values os.getenv can leave in API_KEY: None, the empty string, a key.
Credentials == {None, "", "key"}

\* "API_KEY is None" in the place of "not API_KEY".
API_KEY_is_None(k) == k = None

\* "not API_KEY", app.py:67
not_API_KEY(k) == k = None \/ k = ""

\* What the try block of app.py:71-109 can raise: building the client or the
\* request part (ValueError), the outbound call (APIError: transport, auth,
\* quota), and None.strip() when the response carries no text
\* (AttributeError).
Raised == {"ValueError", "APIError", "AttributeError"}

\* "except APIError" in the place of "except Exception".
Caught_api_errors_only(x) == x = "APIError"

\* "except Exception", app.py:111: every class of Raised derives from
\* Exception.
Caught(x) == x \in {"ValueError", "APIError", "AttributeError"}

\* str.startswith(prefix) for a one-character prefix
startswith(s, c) == Len(s) >= 1 /\ s[1] = c

\* The test of app.py:187
is_failure(s) == s # <<>> /\ startswith(s, CROSS)

----------------------------------------------------------------------------
(* Inputs. *)

\* Every run of at most n whitespace characters.
Pads(n) == UNION {[1..m -> Whitespace] : m \in 0..n}

Letters == {mapping_entries[i][1] : i \in DOMAIN mapping_entries}

\* Texts without surrounding whitespace: every single character of the
\* model, every permitted answer as the prompt writes it, the empty text,
\* multi-character texts, and texts that begin with the failure marker.
Cores ==
  {<<c>> : c \in Letters \cup {TATWEEL, CROSS, LATIN_A}}
  \cup {allowed_letters[i] : i \in DOMAIN allowed_letters}
  \cup { <<>>, <<BEH, BEH>>, <<BEH, SPACE, AIN>>, <<CROSS, SPACE, BEH>>,
         MSG_PROCESSING_FAILED }

\* Arguments of a direct call of get_audio_filename.
ResolverInputs == {l \o c \o r : l \in Pads(MaxPad), r \in Pads(MaxPad), c \in Cores}

\* What response.text can be when the call returns: a text, bare or with the
\* whitespace a service puts around an answer, or None.
ServiceTexts ==
  Cores \cup {c \o <<NEWLINE>> : c \in Cores}
        \cup {<<SPACE>> \o c \o <<SPACE, NEWLINE>> : c \in {<<BEH>>, <<HEH>>, <<AIN>>}}
        \cup {<<SPACE>>}

AllAssets ==
  {path_join(AUDIO_FOLDER, mapping_entries[i][2] \o ".mp4") : i \in DOMAIN mapping_entries}

\* Deployments of the asset folder: complete, empty, one file missing, one
\* file only.
FileSystems ==
  {AllAssets, {}, {"sounds/baa.mp4"}}
  \cup {AllAssets \ {p} : p \in {"sounds/baa.mp4", "sounds/ain.mp4", "sounds/hah.mp4",
                                  "sounds/yaa.mp4", "sounds/hamza.mp4"}}

\* The deployments the presentation flow is run against.
FlowFileSystems ==
  {AllAssets, {}, AllAssets \ {"sounds/baa.mp4"}, AllAssets \ {"sounds/hah.mp4"}}

\* The file types the two input widgets deliver.
CameraImages == {None, "image/jpeg"}
UploadedFiles == {None, "image/png", "image/jpeg"}

----------------------------------------------------------------------------
(* The presentation flow, app.py:118-222: one script run per interaction. *)

NotCalled == [ letter |-> NoneText, normalized_letter |-> NoneText,
               mapping_base |-> <<>>, base_name |-> None, result |-> None ]

Init ==
  /\ API_KEY \in Credentials
  /\ files \in FlowFileSystems
  /\ letter = NoneText
  /\ resolver = NotCalled
  /\ pc = "waiting"
  /\ renders = 0
  /\ camera_image = None
  /\ uploaded_file = None
  /\ source_image = None
  /\ events = <<>>
  /\ calls = 0
  /\ total_calls = 0
  /\ in_flight = 0
  /\ response_text = NoneText
  /\ e = None
  /\ identified_letter = NoneText
  /\ audio_file_path = None

\* The status line and the spinner left out before the call.
shown_without_indicator == <<"image">>

\* What a run with an image renders before it calls the adapter:
\* st.image (172), st.info (175), st.spinner (181).
shown_before_call == <<"image", "info_processing", "spinner">>

\* app.py:118-181 of one run, up to the call of the adapter at line 182; with
\* no image, the whole run (app.py:218-219).  The widgets of a session's
\* first run are empty.
ScriptRun(cam, upl) ==
  /\ pc = "waiting"
  /\ renders < MaxRenders
  /\ renders = 0 => cam = None /\ upl = None
  /\ renders' = renders + 1
  /\ camera_image' = cam
  /\ uploaded_file' = upl
  /\ source_image' = IF cam # None THEN cam ELSE upl
  /\ calls' = 0
  /\ response_text' = NoneText
  /\ e' = None
  /\ identified_letter' = NoneText
  /\ audio_file_path' = None
  /\ resolver' = NotCalled
  /\ IF source_image' # None
     THEN /\ events' = shown_before_call
          /\ pc' = "adapter"
     ELSE /\ events' = <<"info_idle">>
          /\ pc' = "waiting"
  /\ UNCHANGED <<API_KEY, files, letter, total_calls, in_flight>>

\* The except clause of app.py:111-113 for exception x, after the run has
\* produced evs.  An exception the clause does not catch leaves the adapter
\* and ends the run.
Except(x, evs) ==
  IF Caught(x)
  THEN /\ e' = x
       /\ events' = evs \o <<"error_exception">>
       /\ identified_letter' = MSG_PROCESSING_FAILED
       /\ pc' = "render"
  ELSE /\ e' = e
       /\ events' = evs \o <<"uncaught">>
       /\ identified_letter' = identified_letter
       /\ pc' = "crashed"

\* app.py:67-69: no credential.
AdapterNoKey ==
  /\ pc = "adapter"
  /\ not_API_KEY(API_KEY)
  /\ events' = events \o <<"error_no_key">>
  /\ identified_letter' = MSG_NO_KEY
  /\ pc' = "render"
  /\ UNCHANGED <<API_KEY, files, letter, resolver, renders, camera_image,
                 uploaded_file, source_image, calls, total_calls, in_flight,
                 response_text, e, audio_file_path>>

\* app.py:73-102 raises while the client or the request is built.
AdapterBuildRaises ==
  /\ pc = "adapter"
  /\ ~not_API_KEY(API_KEY)
  /\ Except("ValueError", events)
  /\ UNCHANGED <<API_KEY, files, letter, resolver, renders, camera_image,
                 uploaded_file, source_image, calls, total_calls, in_flight,
                 response_text, audio_file_path>>

\* app.py:73-107: the request is built and generate_content is called.
AdapterCall ==
  /\ pc = "adapter"
  /\ ~not_API_KEY(API_KEY)
  /\ calls' = calls + 1
  /\ total_calls' = total_calls + 1
  /\ in_flight' = in_flight + 1
  /\ events' = events \o <<"call_issued">>
  /\ pc' = "in_flight"
  /\ UNCHANGED <<API_KEY, files, letter, resolver, renders, camera_image,
                 uploaded_file, source_image, response_text, e,
                 identified_letter, audio_file_path>>

\* A failed call is issued again instead of being reported.
CallRaises_retry ==
  /\ pc = "in_flight"
  /\ calls < 3
  /\ calls' = calls + 1
  /\ total_calls' = total_calls + 1
  /\ events' = events \o <<"call_failed", "call_issued">>
  /\ UNCHANGED <<API_KEY, files, letter, resolver, pc, renders, camera_image,
                 uploaded_file, source_image, in_flight, response_text, e,
                 identified_letter, audio_file_path>>

\* generate_content raises (app.py:104-107, then 111-113).
CallRaises ==
  /\ pc = "in_flight"
  /\ in_flight' = in_flight - 1
  /\ Except("APIError", events \o <<"call_failed">>)
  /\ UNCHANGED <<API_KEY, files, letter, resolver, renders, camera_image,
                 uploaded_file, source_image, calls, total_calls,
                 response_text, audio_file_path>>

\* generate_content returns a response (app.py:104-109); text is its .text.
CallReturns(text) ==
  /\ pc = "in_flight"
  /\ in_flight' = in_flight - 1
  /\ response_text' = text
  /\ IF text = NoneText
     THEN Except("AttributeError", events \o <<"call_returned">>)
     ELSE /\ identified_letter' = strip(text)
          /\ events' = events \o <<"call_returned">>
          /\ pc' = "render"
          /\ e' = e
  /\ UNCHANGED <<API_KEY, files, letter, resolver, renders, camera_image,
                 uploaded_file, source_image, calls, total_calls,
                 audio_file_path>>

\* app.py:185-215: the result of the run is rendered.
RenderResult ==
  /\ pc = "render"
  /\ pc' = "waiting"
  /\ IF is_failure(identified_letter)
     THEN /\ events' = events \o <<"heading", "error_failed">>
          /\ UNCHANGED <<resolver, audio_file_path>>
     ELSE /\ resolver' = get_audio_filename_locals(identified_letter, files)
          /\ audio_file_path' = resolver'.result
          /\ events' = events \o <<"heading", "balloons", "letter", "success">>
                         \o IF audio_file_path' # None
                               /\ path_exists(files, audio_file_path')
                            THEN <<"audio">>
                            ELSE <<"warning_no_audio">>
  /\ UNCHANGED <<API_KEY, files, letter, renders, camera_image, uploaded_file,
                 source_image, calls, total_calls, in_flight, response_text,
                 e, identified_letter>>

Next ==
  \/ \E cam \in CameraImages, upl \in UploadedFiles : ScriptRun(cam, upl)
  \/ AdapterNoKey
  \/ AdapterBuildRaises
  \/ AdapterCall
  \/ CallRaises
  \/ \E text \in ServiceTexts \cup {NoneText} : CallReturns(text)
  \/ RenderResult

Spec == Init /\ [][Next]_vars

----------------------------------------------------------------------------
(* get_audio_filename on its own, called directly with any input. *)

InitResolver ==
  /\ API_KEY = None
  /\ files \in FileSystems
  /\ letter \in ResolverInputs
  /\ resolver = NotCalled
  /\ pc = "waiting"
  /\ renders = 0
  /\ camera_image = None
  /\ uploaded_file = None
  /\ source_image = None
  /\ events = <<>>
  /\ calls = 0
  /\ total_calls = 0
  /\ in_flight = 0
  /\ response_text = NoneText
  /\ e = None
  /\ identified_letter = NoneText
  /\ audio_file_path = None

\* One call get_audio_filename(letter).
Resolve ==
  /\ resolver.letter = NoneText
  /\ resolver' = get_audio_filename_locals(letter, files)
  /\ UNCHANGED <<API_KEY, files, letter, pc, renders, camera_image,
                 uploaded_file, source_image, events, calls, total_calls,
                 in_flight, response_text, e, identified_letter,
                 audio_file_path>>

NextResolver == Resolve

SpecResolver == InitResolver /\ [][NextResolver]_vars

----------------------------------------------------------------------------
(* Vocabulary of the properties. *)

has(ev) == \E i \in DOMAIN events : events[i] = ev

\* A run that had an image has rendered its result.
Finished == pc = "waiting" /\ source_image # None

\* Text s is character c with nothing but whitespace around it.
Padded(s, c) ==
  \E m \in DOMAIN s : s[m] = c /\ \A j \in DOMAIN s \ {m} : s[j] \in Whitespace

\* The asset of the i-th entry of the table: asset root, base name, ".mp4".
AssetOf(i) == "sounds" \o "/" \o mapping_entries[i][2] \o ".mp4"

\* The user-visible state a run has reached.
UiState ==
  IF has("error_failed") THEN "error"
  ELSE IF has("audio") THEN "success_with_audio"
  ELSE IF has("warning_no_audio") THEN "success_without_audio"
  ELSE IF has("info_processing") \/ has("spinner") THEN "processing"
  ELSE "idle"

CredentialUnset == API_KEY = None \/ API_KEY = ""

\* The outbound call of this run raised, or returned a response with no text.
CallFailed ==
  \/ has("call_failed")
  \/ has("call_returned") /\ response_text = NoneText

ResolverCalled == resolver.letter # NoneText

----------------------------------------------------------------------------
(* Properties of get_audio_filename, checked under SpecResolver. *)

\* C1: for every key of the mapping table, with any whitespace around it, if
\* the file sounds/<base name>.mp4 exists, get_audio_filename returns exactly
\* that path, and the path exists; BEH gives sounds/baa.mp4 and AIN gives
\* sounds/ain.mp4.
C1_MappedLetterResolves ==
  /\ \A i \in DOMAIN mapping_entries :
        (Padded(resolver.letter, mapping_entries[i][1]) /\ AssetOf(i) \in files)
           => resolver.result = AssetOf(i) /\ resolver.result \in files
  /\ (Padded(resolver.letter, BEH) /\ "sounds/baa.mp4" \in files)
        => resolver.result = "sounds/baa.mp4"
  /\ (Padded(resolver.letter, AIN) /\ "sounds/ain.mp4" \in files)
        => resolver.result = "sounds/ain.mp4"

C1_Witness ==
  /\ resolver.letter = <<SPACE, BEH, NEWLINE>>
  /\ resolver.result = "sounds/baa.mp4"

\* C2: for an input whose trimmed value is no key of the table (the empty
\* text and multi-character text included), and for a key whose asset file is
\* missing, get_audio_filename returns None; the two cases give the same
\* value.
C2_AbsentSentinel ==
  ResolverCalled =>
    LET unmapped == \A i \in DOMAIN mapping_entries :
                       ~Padded(resolver.letter, mapping_entries[i][1])
        missing == \E i \in DOMAIN mapping_entries :
                       /\ Padded(resolver.letter, mapping_entries[i][1])
                       /\ AssetOf(i) \notin files
    IN  (unmapped \/ missing) => resolver.result = None

C2_Witness ==
  /\ resolver.letter = <<BEH, NEWLINE>>
  /\ "sounds/baa.mp4" \notin files
  /\ "sounds/ain.mp4" \in files
  /\ resolver.result = None

\* C8 as stated: the table has exactly 34 distinct keys and 34 base names.
C8_Original ==
  ResolverCalled =>
    /\ Cardinality(DOMAIN resolver.mapping_base) = 34
    /\ Cardinality({resolver.mapping_base[k] : k \in DOMAIN resolver.mapping_base}) = 34

\* C8, amended: the table has exactly 36 distinct keys, mapped to 36 distinct
\* base names; the "robust matching" entries add no key and change no value.
C8_Amended ==
  ResolverCalled =>
    /\ Cardinality(DOMAIN resolver.mapping_base) = 36
    /\ Cardinality({resolver.mapping_base[k] : k \in DOMAIN resolver.mapping_base}) = 36
    /\ resolver.mapping_base = DictOf(main_entries)

C8_Witness ==
  /\ ResolverCalled
  /\ Len(mapping_entries) = 40
  /\ resolver.mapping_base["U064A"] = "yaa"

----------------------------------------------------------------------------
(* Properties of the adapter and the presentation flow, checked under Spec. *)

\* C3: with the credential unset (None or empty) the adapter returns the
\* missing-credential failure at once and no outbound call is ever made: the
\* count of calls stays at zero.
C3_NoCallWithoutCredential ==
  CredentialUnset =>
    /\ total_calls = 0
    /\ calls = 0
    /\ in_flight = 0
    /\ ~has("call_issued")
    /\ pc \notin {"in_flight", "crashed"}
    /\ (pc = "render" \/ Finished) =>
          /\ identified_letter = MSG_NO_KEY
          /\ SubSeq(events, 1, 4) = <<"image", "info_processing", "spinner", "error_no_key">>

C3_Witness ==
  /\ API_KEY = ""
  /\ Finished
  /\ identified_letter = MSG_NO_KEY

\* C4: when the outbound call raises, or returns a response with no text, the
\* adapter catches the exception and returns a failure string; nothing
\* propagates to the presentation flow, which renders the error.
C4_FailureCaught ==
  /\ pc # "crashed"
  /\ ~has("uncaught")
  /\ (CallFailed /\ pc \in {"render", "waiting"}) =>
        /\ identified_letter = MSG_PROCESSING_FAILED
        /\ identified_letter[1] = CROSS
        /\ has("error_exception")
  /\ (CallFailed /\ Finished) => UiState = "error"

C4_Witness ==
  /\ Finished
  /\ has("call_returned")
  /\ response_text = NoneText
  /\ UiState = "error"

\* C5 as stated: every run with an image triggers exactly one outbound call.
C5_Original == Finished => calls = 1

\* C5, amended: a run with an image triggers at most one outbound call and
\* never repeats a failed one; it triggers exactly one when the credential is
\* set and building the client and the request did not raise, and none
\* otherwise.
C5_Amended ==
  /\ calls <= 1
  /\ Cardinality({i \in DOMAIN events : events[i] = "call_issued"}) = calls
  /\ Finished =>
        (calls = 1 <=> (~CredentialUnset /\ e # "ValueError"))

C5_Witness ==
  /\ Finished
  /\ has("call_failed")
  /\ calls = 1

\* C6: within one run the processing indicator comes before the call and the
\* call is over before a result is rendered; at most one call is in flight.
C6_Order ==
  /\ in_flight \in {0, 1}
  /\ in_flight = 1 <=> pc = "in_flight"
  /\ \A i \in DOMAIN events :
        events[i] = "call_issued" =>
           \E j \in 1..(i - 1) : events[j] \in {"info_processing", "spinner"}
  /\ \A i \in DOMAIN events :
        events[i] \in {"success", "error_failed"} =>
           /\ in_flight = 0
           /\ \E j \in 1..(i - 1) : events[j] \in {"info_processing", "spinner"}
           /\ \A k \in DOMAIN events :
                 events[k] = "call_issued" =>
                    \E m \in (k + 1)..(i - 1) :
                       events[m] \in {"call_returned", "call_failed"}

C6_Witness ==
  /\ Finished
  /\ has("call_issued")
  /\ has("success")
  /\ has("audio")

\* C7: whenever the adapter returns a text of the service (it did not fail)
\* for which the resolver returns None, the flow renders the success result
\* and then the asset-not-found warning, and ends in success-without-audio,
\* never in the error state.
C7_AbsentAssetIsWarning ==
  (Finished /\ ~CredentialUnset /\ e = None
     /\ get_audio_filename(identified_letter, files) = None)
  => /\ UiState = "success_without_audio"
     /\ SubSeq(events, Len(events) - 1, Len(events)) = <<"success", "warning_no_audio">>

\* C9: every answer the prompt permits, as written there, is after trimming a
\* key of the mapping table; with every asset present a response that is one
\* of them resolves to a path and the run ends in success-with-audio.
C9_PermittedAnswersResolve ==
  \A i \in DOMAIN allowed_letters :
     (Finished /\ ~CredentialUnset /\ e = None /\ files = AllAssets
        /\ response_text = allowed_letters[i])
     => /\ Len(strip(allowed_letters[i])) = 1
        /\ strip(allowed_letters[i])[1] \in Letters
        /\ audio_file_path # None
        /\ UiState = "success_with_audio"

\* C10: the flow renders the error state if and only if the adapter failed
\* (no credential, or a caught exception); a text the service returned on a
\* call that did not raise is never shown as a failed submission.
C10_ErrorIffAdapterFailed ==
  Finished => (UiState = "error" <=> (CredentialUnset \/ e # None))

====
